---- MODULE Spec2Model ----
(***************************************************************************)
(* A model of conda_forge_feedstock_check_solvable/check_solvable.py:      *)
(* a call of is_recipe_solvable on a feedstock directory, and a second     *)
(* call with the same arguments after it (SpecTwice).                      *)
(*                                                                         *)
(* Strings that the code takes apart (file names) are sequences of atoms:  *)
(* "linux_64_.yaml" is <<"linux", "_", "64", "_", ".", "yaml">>.  No atom  *)
(* is a prefix of another one, so the order of two names as sequences of   *)
(* atoms is their order as Python strings.                                 *)
(*                                                                         *)
(* A requirement specifier "name constraint" is the pair <<name,           *)
(* constraint>>; a requirement list is the set of its specifiers.          *)
(*                                                                         *)
(* The call is made with build_platform=None, so that the build platform   *)
(* is the target platform (line 171).  Verbosity, printing and the glibc   *)
(* override of line 122 have no effect on the result and are left out.     *)
(* The clock advances, by at most one unit, in every step that ends with a *)
(* deadline check.  Unless the oracle makes them deterministic, the merge  *)
(* and the render fail or succeed, and the solver answers any non-empty    *)
(* requirement list with success or with failure, which covers the         *)
(* per-call timeout that only the rattler backend is given (line 324).     *)
(***************************************************************************)
EXTENDS Integers, Sequences, FiniteSets, TLC

VARIABLES
    \* ---- the world: file system, arguments, collaborators ----
    ciFiles,            \* names of the files in feedstock_dir/.ci_support
    hasMeta,            \* feedstock_dir/recipe/meta.yaml exists
    staleFile,          \* recipe/conda_build_config.yaml exists
    recipe,             \* the Metadata objects the recipe renders to
    channelRx,          \* run-exports declared by the packages of the channels
    oracle,             \* what merge, render and the solvers answer
    solver,             \* argument solver
    fail_fast,          \* argument fail_fast
    timeout,            \* argument timeout
    callerChannels,     \* the list object passed as additional_channels
    now,                \* wall clock
    \* ---- is_recipe_solvable / _is_recipe_solvable ----
    pc,                 \* position in the code
    deadline,           \* the TimeoutTimer of the call
    additional_channels,
    cbcs, idx,          \* sorted config files, position of the for loop
    solvable, errors, solvable_by_cbc,
    platform, arch,
    \* ---- _is_recipe_solvable_on_platform ----
    channel_sources,
    att, cbc,           \* merge attempt, merged variant spec
    metas, mi,          \* rendered Metadata, position of the for loop
    p_solvable, p_errors,
    outnames,
    build_req, host_req, run_req, run_constrained,
    lastSolve,          \* the last call of solver.solve for this config
    \* ---- outcome ----
    res,                \* the returned tuple
    exc,                \* the exception raised (caught at line 92 or escaped)
    \* ---- the caller ----
    ncall,              \* the call being made: the first or the second
    first               \* the outcome of the first call

args     == <<ciFiles, hasMeta, recipe, channelRx, oracle, solver, fail_fast,
              timeout>>
callerVars == <<ncall, first>>
aggVars  == <<deadline, additional_channels, cbcs, idx, solvable, errors,
              solvable_by_cbc, platform, arch>>
reqVars  == <<build_req, host_req, run_req, run_constrained>>
platVars == <<channel_sources, att, cbc, metas, mi, p_solvable, p_errors,
              outnames, reqVars, lastSolve>>
vars     == <<args, callerVars, staleFile, callerChannels, now, pc, aggVars,
              platVars, res, exc>>

\* Python's None: as a string, as an exception or error message, as a number
NoneVal   == "None"
None      == [type |-> "None"]
NoTimeout == -1

\* res before the call has returned
NoResult == <<>>

\* first before the first call has ended
NoOutcome == [pc |-> "call", res |-> NoResult, exc |-> None]

\* lastSolve before the solver was called
NoSolve == [made |-> FALSE, output |-> 0, phase |-> NoneVal, reqs |-> {},
            ok |-> TRUE]

(***************************************************************************)
(* Bounds of the model.                                                    *)
(***************************************************************************)
MaxClock == 1       \* the clock stops advancing here
MaxFiles == 2       \* files in .ci_support
MaxMetas == 2       \* outputs of one recipe

(***************************************************************************)
(* Program constants.                                                      *)
(***************************************************************************)
UnlimitedBudget == 600000       \* 6e5, the budget used for timeout=None

RecognizedArchs == {"32", "aarch64", "ppc64le", "armv7l", "arm64"}

NoConfigsError == "No .ci_support yaml files found"
NoMetaError    == "No recipe meta.yaml file found"

VirtualPackages == "virtual_package_repodata"

(***************************************************************************)
(* Strings as sequences of atoms.                                          *)
(***************************************************************************)
AtomRank(a) ==
    CASE a = "."       -> 1
      [] a = "32"      -> 2
      [] a = "64"      -> 3
      [] a = "README"  -> 4
      [] a = "_"       -> 5
      [] a = "aarch64" -> 6
      [] a = "linux"   -> 7
      [] a = "osx"     -> 8
      [] a = "win"     -> 9
      [] a = "yaml"    -> 10

\* Python's str < str
RECURSIVE StrLess(_, _)
StrLess(s, t) ==
    IF t = <<>> THEN FALSE
    ELSE IF s = <<>> THEN TRUE
    ELSE IF Head(s) = Head(t) THEN StrLess(Tail(s), Tail(t))
    ELSE AtomRank(Head(s)) < AtomRank(Head(t))

\* str.split(sep): the pieces between the occurrences of sep
RECURSIVE SplitFrom(_, _, _, _)
SplitFrom(s, sep, cur, acc) ==
    IF s = <<>> THEN Append(acc, cur)
    ELSE IF Head(s) = sep THEN SplitFrom(Tail(s), sep, <<>>, Append(acc, cur))
    ELSE SplitFrom(Tail(s), sep, Append(cur, Head(s)), acc)

Split(s, sep) == SplitFrom(s, sep, <<>>, <<>>)

\* str.rsplit(sep, maxsplit=1)[0]: what precedes the last sep, all of s
\* when there is none
RsplitHead(s, sep) ==
    LET at == {i \in 1..Len(s) : s[i] = sep}
    IN  IF at = {} THEN s
        ELSE LET last == CHOOSE i \in at : \A j \in at : j <= i
             IN  SubSeq(s, 1, last - 1)

\* fnmatch of a file name against "*.yaml" (glob skips hidden files)
MatchesYaml(f) ==
    /\ Len(f) >= 2
    /\ f[Len(f) - 1] = "."
    /\ f[Len(f)] = "yaml"
    /\ f[1] # "."

\* sorted(...) of a set of strings
RECURSIVE Sorted(_)
Sorted(S) ==
    IF S = {} THEN <<>>
    ELSE LET least == CHOOSE f \in S : \A g \in S \ {f} : StrLess(f, g)
         IN  <<least>> \o Sorted(S \ {least})

Glob(dir) == Sorted({f \in dir : MatchesYaml(f)})

(***************************************************************************)
(* Values.                                                                 *)
(***************************************************************************)
Min(a, b) == IF a < b THEN a ELSE b

EmptyDict == [k \in {} |-> TRUE]

\* dict[key] = value
DictPut(d, key, value) ==
    [k \in DOMAIN d \cup {key} |-> IF k = key THEN value ELSE d[k]]

EmptyRx == [strong |-> {}, weak |-> {}, noarch |-> {},
            strong_constrains |-> {}, weak_constrains |-> {}]

\* the exceptions of the code
TimeoutTimerException == [type |-> "TimeoutTimerException"]
IndexError            == [type |-> "IndexError"]
RenderError           == [type |-> "RenderError"]
MergeError(n)         == [type |-> "MergeError", attempt |-> n]
ValueError(name)      == [type |-> "ValueError", backend |-> name]

(***************************************************************************)
(* The files of .ci_support the model draws from.                          *)
(***************************************************************************)
Linux64     == <<"linux", "_", "64", "_", ".", "yaml">>
LinuxArm    == <<"linux", "_", "aarch64", "_", ".", "yaml">>
Osx64       == <<"osx", "_", "64", "_", ".", "yaml">>
LinuxBare   == <<"linux", ".", "yaml">>
Readme      == <<"README">>

CiFileNames == {Linux64, LinuxArm, Osx64, LinuxBare, Readme}

(***************************************************************************)
(* The Metadata objects the model draws from.                              *)
(***************************************************************************)
Python == <<"python", ">=3.8">>
Gcc    == <<"gcc", "">>
Pytest == <<"pytest", "">>

Meta(n, cross, na, bih, b, h, r, rc, t) ==
    [name |-> n, is_cross |-> cross, noarch |-> na, build_is_host |-> bih,
     build |-> b, host |-> h, run |-> r, run_constrained |-> rc, test |-> t]

\* host: [python >=3.8], run: [python >=3.8], no build or test requirements
LibMeta  == Meta("lib", FALSE, FALSE, FALSE, {}, {Python}, {Python}, {}, {})
\* build: [gcc], test: [pytest]
ToolMeta == Meta("tool", FALSE, FALSE, FALSE, {Gcc}, {}, {}, {}, {Pytest})

MetaCatalogue == {LibMeta, ToolMeta}

RECURSIVE SeqsUpTo(_, _)
SeqsUpTo(S, n) ==
    IF n = 0 THEN {<<>>}
    ELSE LET shorter == SeqsUpTo(S, n - 1)
         IN  shorter \cup {Append(q, x) : q \in shorter, x \in S}

LibcRx == [strong |-> {<<"libgcc", "">>}, weak |-> {}, noarch |-> {},
           strong_constrains |-> {}, weak_constrains |-> {}]

RxCatalogue == {[build |-> LibcRx, host |-> EmptyRx]}

SolverNames   == {"rattler", "mamba", "conda"}
TimeoutValues == {0, NoTimeout}
\* additional_channels: None or a list
NoChannels == [given |-> FALSE, items |-> <<>>]
ChannelList(l) == [given |-> TRUE, items |-> l]

ChannelValues == {NoChannels}

\* the collaborators answer as they like, or they are deterministic: the
\* merge fails always or when recipe/conda_build_config.yaml is there, the
\* render fails or not, a solve fails when a package asked for is in none of
\* the channels (extra: the packages the additional channel provides)
AnyAnswer ==
    [free |-> TRUE, missing |-> {}, extra |-> {}, mergeFails |-> FALSE,
     staleBreaksMerge |-> FALSE, renderFails |-> FALSE]

Deterministic(missing, extra, mf, sb, rf) ==
    [free |-> FALSE, missing |-> missing, extra |-> extra, mergeFails |-> mf,
     staleBreaksMerge |-> sb, renderFails |-> rf]

ExtraChannel == "bioconda"

(***************************************************************************)
(* TimeoutTimer (utils.py)                                                 *)
(***************************************************************************)
\* TimeoutTimer(budget) created at time t
NewTimer(budget, t) == t + budget

\* timer.raise_for_timeout() raises at time t
Expired(timer, t) == t > timer

\* the clock after an operation that started at time t
Later(t) == {Min(t + d, MaxClock) : d \in 0..1}

(***************************************************************************)
(* is_recipe_solvable (lines 34-100)                                       *)
(***************************************************************************)
\* the state before the call, the world and the arguments drawn from the
\* given sets
InitOver(dirs, stale, recipes, rxs, oracles, solvers, timeouts, channels) ==
    /\ ciFiles \in dirs
    /\ hasMeta \in BOOLEAN
    /\ staleFile \in stale
    /\ recipe \in recipes
    /\ channelRx \in rxs
    /\ oracle \in oracles
    /\ solver \in solvers
    /\ fail_fast \in BOOLEAN
    /\ timeout \in timeouts
    /\ callerChannels \in channels
    /\ now = 0
    /\ pc = "call"
    /\ deadline = 0
    /\ additional_channels = <<>>
    /\ cbcs = <<>> /\ idx = 0
    /\ solvable = TRUE /\ errors = <<>> /\ solvable_by_cbc = EmptyDict
    /\ platform = <<>> /\ arch = <<>>
    /\ channel_sources = <<>>
    /\ att = 0 /\ cbc = NoneVal
    /\ metas = <<>> /\ mi = 0
    /\ p_solvable = TRUE /\ p_errors = <<>>
    /\ outnames = {}
    /\ build_req = {} /\ host_req = {} /\ run_req = {} /\ run_constrained = {}
    /\ lastSolve = NoSolve
    /\ res = NoResult
    /\ exc = None
    /\ ncall = 1
    /\ first = NoOutcome

Init ==
    InitOver({d \in SUBSET CiFileNames : Cardinality(d) <= MaxFiles},
             {TRUE}, SeqsUpTo(MetaCatalogue, MaxMetas), RxCatalogue,
             {AnyAnswer}, SolverNames, TimeoutValues, ChannelValues)

\* raise e: TimeoutTimerException is caught at line 92, the others escape
Raise(e) ==
    /\ exc' = e
    /\ pc' = IF e = TimeoutTimerException THEN "except" ELSE "raised"

\* timeout if timeout is not None else 6e5 (line 89)
Budget(t) == IF t = NoTimeout THEN UnlimitedBudget ELSE t

\* additional_channels = additional_channels or [] (line 117)
ChannelsOrEmpty(arg) == IF ~arg.given \/ arg.items = <<>> THEN <<>> ELSE arg.items

\* lines 82-120: the timer is created, the virtual packages are appended to
\* additional_channels in place, the deadline is checked
Enter ==
    /\ pc = "call"
    /\ \E t \in Later(now) :
        /\ now' = t
        /\ deadline' = NewTimer(Budget(timeout), now)
        /\ additional_channels' =
               Append(ChannelsOrEmpty(callerChannels), VirtualPackages)
        /\ callerChannels' =
               IF ~callerChannels.given \/ callerChannels.items = <<>>
               THEN callerChannels
               ELSE ChannelList(Append(callerChannels.items, VirtualPackages))
        /\ IF Expired(deadline', t)
           THEN Raise(TimeoutTimerException)
           ELSE pc' = "glob" /\ exc' = exc
    /\ UNCHANGED <<args, callerVars, staleFile, cbcs, idx, solvable, errors,
                   solvable_by_cbc, platform, arch, platVars, res>>

\* mutant of TimeoutResult: the timeout fails closed
TimeoutResultFailClosed == <<FALSE, <<>>, EmptyDict>>

\* the result of the except clause (lines 94-98)
TimeoutResult == <<TRUE, <<>>, EmptyDict>>

\* lines 92-100
CatchTimeout ==
    /\ pc = "except"
    /\ res' = TimeoutResult
    /\ pc' = "done"
    /\ UNCHANGED <<args, callerVars,
                   staleFile, callerChannels, now, aggVars, platVars,
                   exc>>

\* mutant of StructuralResult: the explanation is dropped
StructuralResultWithoutErrors(errs) == <<FALSE, <<>>, EmptyDict>>

\* the result of a structural failure (lines 133, 141)
StructuralResult(errs) == <<FALSE, errs, EmptyDict>>

\* lines 122-145
Discover ==
    /\ pc = "glob"
    /\ cbcs' = Glob(ciFiles)
    /\ IF Len(cbcs') = 0
       THEN /\ errors' = Append(<<>>, NoConfigsError)
            /\ res' = StructuralResult(errors')
            /\ pc' = "done"
       ELSE IF ~hasMeta
       THEN /\ errors' = Append(<<>>, NoMetaError)
            /\ res' = StructuralResult(errors')
            /\ pc' = "done"
       ELSE /\ errors' = <<>>
            /\ res' = res
            /\ pc' = "for_cbc"
    /\ IF Len(cbcs') # 0 /\ hasMeta
       THEN solvable' = TRUE /\ solvable_by_cbc' = EmptyDict /\ idx' = 1
       ELSE UNCHANGED <<solvable, solvable_by_cbc, idx>>
    /\ UNCHANGED <<args, callerVars, staleFile, callerChannels, now, deadline,
                   additional_channels, platform, arch, platVars, exc>>

\* _parts = os.path.basename(cbc_fname).split("_") (line 157)
Parts(fname) == Split(fname, "_")

\* arch = _parts[1], "64" unless it is a recognized one (lines 159-161)
ArchOf(fname) ==
    LET a == Parts(fname)[2]
    IN  IF Len(a) = 1 /\ a[1] \in RecognizedArchs THEN a ELSE <<"64">>

\* platform = _parts[0] (line 158)
PlatformOf(fname) == Parts(fname)[1]

\* lines 146-163: the head of the loop over the config files
LoopHead ==
    /\ pc = "for_cbc"
    /\ \E t \in Later(now) :
        /\ now' = t
        /\ IF Expired(deadline, t)
           THEN Raise(TimeoutTimerException) /\ UNCHANGED <<platform, arch>>
           ELSE IF Len(Parts(cbcs[idx])) < 2
           THEN Raise(IndexError) /\ UNCHANGED <<platform, arch>>
           ELSE /\ platform' = PlatformOf(cbcs[idx])
                /\ arch' = ArchOf(cbcs[idx])
                /\ pc' = "channels"
                /\ exc' = exc
    /\ UNCHANGED <<args, callerVars, staleFile, callerChannels, deadline,
                   additional_channels, cbcs, idx, solvable, errors,
                   solvable_by_cbc, platVars, res>>

(***************************************************************************)
(* _is_recipe_solvable_on_platform (lines 189-454)                         *)
(***************************************************************************)
\* cbc_cfg["channel_sources"] of the config files of the model, already
\* split at the commas
DeclaresChannels(fname) == fname = Osx64
DeclaredChannels(fname) == IF fname = Osx64 THEN <<"conda-forge">> ELSE <<>>

\* lines 210-222
ChannelSources(fname, plat, extra) ==
    LET declared == IF DeclaresChannels(fname)
                    THEN DeclaredChannels(fname)
                    ELSE <<"conda-forge", "defaults">>
        hasMsys  == \E i \in 1..Len(declared) : declared[i] = "msys2"
        withMsys == IF ~hasMsys /\ Len(plat) > 0 /\ plat[1] = "win"
                    THEN Append(declared, "msys2")
                    ELSE declared
    IN  IF extra # <<>> THEN extra \o withMsys ELSE withMsys

\* lines 200-231
PlatChannels ==
    /\ pc = "channels"
    /\ channel_sources' = ChannelSources(cbcs[idx], platform, additional_channels)
    /\ \E t \in Later(now) :
        /\ now' = t
        /\ IF Expired(deadline, t)
           THEN Raise(TimeoutTimerException)
           ELSE pc' = "merge" /\ exc' = exc
    /\ att' = 0
    /\ cbc' = NoneVal
    /\ UNCHANGED <<args, callerVars,
                   staleFile, callerChannels, aggVars, metas, mi,
                   p_solvable, p_errors, outnames, reqVars, lastSolve, res>>

\* the variant specification get_package_combined_spec returns
MergedVariants == "variants"

\* what get_package_combined_spec may answer, given whether it sees
\* recipe/conda_build_config.yaml
MergeAnswers(fileSeen) ==
    IF oracle.free THEN BOOLEAN
    ELSE {~(oracle.mergeFails \/ (fileSeen /\ oracle.staleBreaksMerge))}

\* mutant of MergeSees: the file is removed after the second attempt
MergeSeesBeforeRemoval(a, present) == present

\* lines 241-245: the second attempt is made after the file was removed
MergeSees(a, present) == IF a = 1 THEN FALSE ELSE present

\* lines 238-257: one attempt of the loop "for att in range(2)"
Merge ==
    /\ pc = "merge"
    /\ \E t \in Later(now) :
        /\ now' = t
        /\ IF Expired(deadline, t)
           THEN /\ Raise(TimeoutTimerException)
                /\ UNCHANGED <<staleFile, att, cbc>>
           ELSE /\ staleFile' = IF att = 1 THEN FALSE ELSE staleFile
                /\ \E merged \in MergeAnswers(MergeSees(att, staleFile)) :
                    IF ~merged /\ att # 0
                    THEN Raise(MergeError(att)) /\ UNCHANGED <<att, cbc>>
                    ELSE /\ cbc' = IF merged THEN MergedVariants ELSE cbc
                         /\ att' = att + 1
                         /\ pc' = IF att' = 2 THEN "render" ELSE "merge"
                         /\ exc' = exc
    /\ UNCHANGED <<args, callerVars,
                   callerChannels, aggVars, channel_sources, metas, mi,
                   p_solvable, p_errors, outnames, reqVars, lastSolve, res>>

\* whether conda_build_api_render may succeed (TRUE), may raise (FALSE)
RenderAnswers == IF oracle.free THEN BOOLEAN ELSE {~oracle.renderFails}

\* lines 259-274: conda_build_api_render between two deadline checks
Render ==
    /\ pc = "render"
    /\ \E t1 \in Later(now) :
        IF Expired(deadline, t1)
        THEN now' = t1 /\ Raise(TimeoutTimerException) /\ metas' = metas
        ELSE \/ /\ FALSE \in RenderAnswers
                /\ now' = t1 /\ Raise(RenderError) /\ metas' = metas
             \/ \E t2 \in Later(t1) :
                  /\ TRUE \in RenderAnswers
                  /\ now' = t2
                  /\ metas' = recipe
                  /\ IF Expired(deadline, t2)
                     THEN Raise(TimeoutTimerException)
                     ELSE pc' = "solver" /\ exc' = exc
    /\ UNCHANGED <<args, callerVars,
                   staleFile, callerChannels, aggVars, channel_sources,
                   att, cbc, mi, p_solvable, p_errors, outnames, reqVars,
                   lastSolve, res>>

\* mutant of KnownBackends: every other name gets a solver too
KnownBackendsWithDefault == {"rattler", "mamba", "conda"}

\* the names for which a solver factory exists (lines 285-288)
KnownBackends == {"rattler", "mamba"}

\* lines 277-303: the two solvers are made, the loop over metas is entered
GetSolver ==
    /\ pc = "solver"
    /\ IF solver \notin KnownBackends
       THEN /\ Raise(ValueError(solver))
            /\ UNCHANGED <<now, mi, p_solvable, p_errors, outnames>>
       ELSE \E t \in Later(now) :
            /\ now' = t
            /\ IF Expired(deadline, t)
               THEN /\ Raise(TimeoutTimerException)
                    /\ UNCHANGED <<mi, p_solvable, p_errors, outnames>>
               ELSE /\ p_solvable' = TRUE
                    /\ p_errors' = <<>>
                    /\ outnames' = {metas[i].name : i \in 1..Len(metas)}
                    /\ mi' = 1
                    /\ pc' = IF Len(metas) = 0 THEN "plat_return" ELSE "for_meta"
                    /\ exc' = exc
    /\ UNCHANGED <<args, callerVars,
                   staleFile, callerChannels, aggVars, channel_sources,
                   att, cbc, metas, reqVars, lastSolve, res>>

\* lines 304-316: the head of the loop over metas
MetaHead ==
    /\ pc = "for_meta"
    /\ \E t \in Later(now) :
        /\ now' = t
        /\ IF Expired(deadline, t)
           THEN Raise(TimeoutTimerException) /\ UNCHANGED reqVars
           ELSE /\ build_req' = metas[mi].build
                /\ host_req' = metas[mi].host
                /\ run_req' = metas[mi].run
                /\ run_constrained' = metas[mi].run_constrained
                /\ pc' = "build"
                /\ exc' = exc
    /\ UNCHANGED <<args, callerVars,
                   staleFile, callerChannels, aggVars, channel_sources,
                   att, cbc, metas, mi, p_solvable, p_errors, outnames,
                   lastSolve, res>>

(***************************************************************************)
(* Collaborators: requirement utilities (utils.py) and the solvers         *)
(***************************************************************************)
ReqName(r) == r[1]

Names(reqs) == {ReqName(r) : r \in reqs}

\* remove_reqs_by_name(reqs, names)
RemoveReqsByName(reqs, names) == {r \in reqs : ReqName(r) \notin names}

\* apply_pins(reqs, host_req, build_req, outnames, m): a requirement whose
\* package was resolved in the pin basis is pinned to the resolved version
ApplyPins(reqs, host, build, outs, m) ==
    LET basis == RemoveReqsByName(IF m.is_cross THEN host ELSE build, outs)
    IN  {IF ReqName(r) \in Names(basis) /\ r[2] = ""
         THEN <<ReqName(r), "pinned">> ELSE r : r \in reqs}

\* replace_pin_compatible(reqs, basis)
ReplacePinCompatible(reqs, basis) ==
    {IF r[2] = "pin_compatible" /\ ReqName(r) \in Names(basis)
     THEN <<ReqName(r), "compatible">> ELSE r : r \in reqs}

\* the requirements as the solver resolves them
Resolved(reqs) == {<<ReqName(r), "resolved">> : r \in reqs}

\* the packages that none of the channels of the solver has
Unavailable ==
    IF \E i \in 1..Len(channel_sources) : channel_sources[i] = ExtraChannel
    THEN oracle.missing \ oracle.extra
    ELSE oracle.missing

\* solver.solve(reqs, ...): the results the solver may give; tag names the
\* call in the error message.  An empty list is solvable.
Solve(reqs, rx, tag) ==
    LET answers ==
            {[ok |-> TRUE, err |-> None, solution |-> Resolved(reqs),
              rx |-> rx]}
            \cup
            (IF reqs = {} THEN {}
             ELSE {[ok |-> FALSE, err |-> [unsat |-> tag], solution |-> {},
                    rx |-> EmptyRx]})
    IN  {a \in answers :
            oracle.free \/ (a.ok <=> Names(reqs) \cap Unavailable = {})}

(***************************************************************************)
(* The phases of one Metadata (lines 317-445)                              *)
(***************************************************************************)
\* mutant of AndSolvable: the last answer wins
AndSolvableLast(acc, ok) == ok

\* solvable = solvable and _solvable (lines 330, 371, 412, 439)
AndSolvable(acc, ok) == acc /\ ok

\* mutant of RecordError: the test for None is missing
RecordErrorAlways(errs, err) == Append(errs, err)

\* if _err is not None: errors.append(_err) (lines 331, 372, 413, 440)
RecordError(errs, err) == IF err # None THEN Append(errs, err) ELSE errs

\* mutants of AfterPhase: a failed phase does not end the Metadata; fail_fast
\* ends the Metadata only
AfterPhaseWithoutContinue(acc, ok, ff) ==
    IF ~acc /\ ff THEN "break" ELSE "next"

AfterPhaseWithoutBreak(acc, ok, ff) ==
    IF ~ok THEN "continue" ELSE "next"

\* break, continue or go on (lines 333-336, 374-377, 415-418, 442-445)
AfterPhase(acc, ok, ff) ==
    IF ~acc /\ ff THEN "break"
    ELSE IF ~ok THEN "continue"
    ELSE "next"

\* mutants of BuildPropagate: the noarch bucket is added whether or not the
\* build environment is the host environment; the weak bucket is forgotten
BuildPropagateNoarchUnguarded(m, rx, host, run, rc) ==
    [host |-> IF m.is_cross \/ (~m.noarch /\ ~m.build_is_host)
              THEN host \cup rx.strong ELSE host,
     run  |-> IF m.noarch
              THEN (IF m.is_cross THEN run ELSE run \cup rx.noarch)
              ELSE IF m.is_cross \/ ~m.build_is_host THEN run \cup rx.strong
              ELSE run \cup rx.strong \cup rx.weak,
     rc   |-> IF ~m.is_cross /\ ~m.noarch /\ m.build_is_host
              THEN rc \cup rx.strong_constrains \cup rx.weak_constrains
              ELSE rc \cup rx.strong_constrains]

BuildPropagateWithoutWeak(m, rx, host, run, rc) ==
    [host |-> IF m.is_cross \/ (~m.noarch /\ ~m.build_is_host)
              THEN host \cup rx.strong ELSE host,
     run  |-> IF m.noarch
              THEN (IF ~m.is_cross /\ m.build_is_host
                    THEN run \cup rx.noarch ELSE run)
              ELSE run \cup rx.strong,
     rc   |-> IF ~m.is_cross /\ ~m.noarch /\ m.build_is_host
              THEN rc \cup rx.strong_constrains \cup rx.weak_constrains
              ELSE rc \cup rx.strong_constrains]

\* lines 338-356: what the run-exports of the build solve are added to
BuildPropagate(m, rx, host, run, rc) ==
    LET rc1 == rc \cup rx.strong_constrains
    IN  IF m.is_cross
        THEN [host |-> host \cup rx.strong,
              run  |-> IF ~m.noarch THEN run \cup rx.strong ELSE run,
              rc   |-> rc1]
        ELSE IF m.noarch
        THEN [host |-> host,
              run  |-> IF m.build_is_host THEN run \cup rx.noarch ELSE run,
              rc   |-> rc1]
        ELSE IF m.build_is_host
        THEN [host |-> host,
              run  |-> run \cup rx.strong \cup rx.weak,
              rc   |-> rc1 \cup rx.weak_constrains]
        ELSE [host |-> host \cup rx.strong,
              run  |-> run \cup rx.strong,
              rc   |-> rc1]

\* mutant of HostPropagate: is_cross is not looked at
HostPropagateAlways(m, rx, run, rc) ==
    [run |-> IF m.noarch THEN run \cup rx.noarch
             ELSE run \cup rx.weak \cup rx.strong,
     rc  |-> rc \cup rx.weak_constrains \cup rx.strong_constrains]

\* lines 379-389: what the run-exports of the host solve are added to
HostPropagate(m, rx, run, rc) ==
    IF m.is_cross
    THEN [run |-> IF m.noarch THEN run \cup rx.noarch
                  ELSE run \cup rx.weak \cup rx.strong,
          rc  |-> rc \cup rx.weak_constrains \cup rx.strong_constrains]
    ELSE [run |-> run, rc |-> rc]

\* the loop over metas goes to its next element or ends
NextMeta ==
    /\ mi' = mi + 1
    /\ pc' = IF mi = Len(metas) THEN "plat_return" ELSE "for_meta"

\* the control flow after a solve: flow is the value of AfterPhase, phase
\* the position of the next phase
Flow(flow, phase) ==
    IF flow = "break" THEN pc' = "plat_return" /\ mi' = mi
    ELSE IF flow = "continue" \/ phase = "end" THEN NextMeta
    ELSE pc' = phase /\ mi' = mi

Tag(phase) == [phase |-> phase, output |-> mi]

\* a call solver.solve(reqs, ...) for the current Metadata and its answer
SolveCall(phase, reqs, ok) ==
    [made |-> TRUE, output |-> mi, phase |-> phase, reqs |-> reqs, ok |-> ok]

\* line 318: the build requirements handed to the solver
BuildReqs(build, outs) == RemoveReqsByName(build, outs)

\* line 359: the host requirements handed to the solver
HostReqs(host, outs) == RemoveReqsByName(host, outs)

\* lines 317-356
BuildPhase ==
    /\ pc = "build"
    /\ IF build_req = {}
       THEN /\ pc' = "host"
            /\ UNCHANGED <<now, mi, p_solvable, p_errors, reqVars, lastSolve,
                           exc>>
       ELSE \E out \in Solve(BuildReqs(build_req, outnames),
                             channelRx.build, Tag("build")),
               t \in Later(now) :
            /\ now' = t
            /\ lastSolve' = SolveCall("build", BuildReqs(build_req, outnames),
                                      out.ok)
            /\ IF Expired(deadline, t)
               THEN /\ Raise(TimeoutTimerException)
                    /\ UNCHANGED <<mi, p_solvable, p_errors, reqVars>>
               ELSE /\ p_solvable' = AndSolvable(p_solvable, out.ok)
                    /\ p_errors' = RecordError(p_errors, out.err)
                    /\ Flow(AfterPhase(p_solvable', out.ok, fail_fast), "host")
                    /\ build_req' = out.solution
                    /\ LET new == BuildPropagate(metas[mi], out.rx, host_req,
                                                 run_req, run_constrained)
                       IN  IF out.ok
                           THEN /\ host_req' = new.host
                                /\ run_req' = new.run
                                /\ run_constrained' = new.rc
                           ELSE UNCHANGED <<host_req, run_req, run_constrained>>
                    /\ exc' = exc
    /\ UNCHANGED <<args, callerVars,
                   staleFile, callerChannels, aggVars, channel_sources,
                   att, cbc, metas, outnames, res>>

\* lines 358-389
HostPhase ==
    /\ pc = "host"
    /\ IF host_req = {}
       THEN /\ pc' = "run"
            /\ UNCHANGED <<now, mi, p_solvable, p_errors, reqVars, lastSolve,
                           exc>>
       ELSE \E out \in Solve(HostReqs(host_req, outnames),
                             channelRx.host, Tag("host")),
               t \in Later(now) :
            /\ now' = t
            /\ lastSolve' = SolveCall("host", HostReqs(host_req, outnames),
                                      out.ok)
            /\ IF Expired(deadline, t)
               THEN /\ Raise(TimeoutTimerException)
                    /\ UNCHANGED <<mi, p_solvable, p_errors, reqVars>>
               ELSE /\ p_solvable' = AndSolvable(p_solvable, out.ok)
                    /\ p_errors' = RecordError(p_errors, out.err)
                    /\ Flow(AfterPhase(p_solvable', out.ok, fail_fast), "run")
                    /\ host_req' = out.solution
                    /\ LET new == HostPropagate(metas[mi], out.rx, run_req,
                                                run_constrained)
                       IN  IF out.ok
                           THEN /\ run_req' = new.run
                                /\ run_constrained' = new.rc
                           ELSE UNCHANGED <<run_req, run_constrained>>
                    /\ build_req' = build_req
                    /\ exc' = exc
    /\ UNCHANGED <<args, callerVars,
                   staleFile, callerChannels, aggVars, channel_sources,
                   att, cbc, metas, outnames, res>>

\* pin_compat_req (line 391)
PinCompatReq(m, host, build) == IF m.is_cross THEN host ELSE build

\* mutant of RunReqs: the outputs are not removed after the pins
RunReqsWithOutputs(m, run, host, build, outs) ==
    ReplacePinCompatible(ApplyPins(run, host, build, outs, m),
                         PinCompatReq(m, host, build))

\* lines 398-400: the run requirements handed to the solver
RunReqs(m, run, host, build, outs) ==
    ReplacePinCompatible(
        RemoveReqsByName(ApplyPins(run, host, build, outs, m), outs),
        PinCompatReq(m, host, build))

\* lines 391-418
RunPhase ==
    /\ pc = "run"
    /\ run_constrained' =
           ApplyPins(run_constrained, host_req, build_req, outnames, metas[mi])
    /\ IF run_req = {}
       THEN /\ pc' = "test"
            /\ UNCHANGED <<now, mi, p_solvable, p_errors, run_req, lastSolve,
                           exc>>
       ELSE /\ run_req' = RunReqs(metas[mi], run_req, host_req, build_req,
                                  outnames)
            /\ \E out \in Solve(run_req', EmptyRx, Tag("run")),
                  t \in Later(now) :
                /\ now' = t
                /\ lastSolve' = SolveCall("run", run_req', out.ok)
                /\ IF Expired(deadline, t)
                   THEN /\ Raise(TimeoutTimerException)
                        /\ UNCHANGED <<mi, p_solvable, p_errors>>
                   ELSE /\ p_solvable' = AndSolvable(p_solvable, out.ok)
                        /\ p_errors' = RecordError(p_errors, out.err)
                        /\ Flow(AfterPhase(p_solvable', out.ok, fail_fast),
                                "test")
                        /\ exc' = exc
    /\ UNCHANGED <<args, callerVars,
                   staleFile, callerChannels, aggVars, channel_sources,
                   att, cbc, metas, outnames, build_req, host_req, res>>

\* lines 420-428: the test requirements handed to the solver
TestReqs(m, run, host, build, outs) ==
    ReplacePinCompatible(RemoveReqsByName(m.test \cup run, outs),
                         PinCompatReq(m, host, build))

\* lines 420-445
TestPhase ==
    /\ pc = "test"
    /\ IF metas[mi].test \cup run_req = {}
       THEN /\ NextMeta
            /\ UNCHANGED <<now, p_solvable, p_errors, lastSolve, exc>>
       ELSE \E out \in Solve(TestReqs(metas[mi], run_req, host_req, build_req,
                                      outnames), EmptyRx, Tag("test")),
               t \in Later(now) :
            /\ now' = t
            /\ lastSolve' =
                   SolveCall("test", TestReqs(metas[mi], run_req, host_req,
                                              build_req, outnames), out.ok)
            /\ IF Expired(deadline, t)
               THEN /\ Raise(TimeoutTimerException)
                    /\ UNCHANGED <<mi, p_solvable, p_errors>>
               ELSE /\ p_solvable' = AndSolvable(p_solvable, out.ok)
                    /\ p_errors' = RecordError(p_errors, out.err)
                    /\ Flow(AfterPhase(p_solvable', out.ok, fail_fast), "end")
                    /\ exc' = exc
    /\ UNCHANGED <<args, callerVars,
                   staleFile, callerChannels, aggVars, channel_sources,
                   att, cbc, metas, outnames, reqVars, res>>

(***************************************************************************)
(* _is_recipe_solvable, after a configuration (lines 178-186)              *)
(***************************************************************************)
\* cbc_name (line 179)
CbcName(fname) == RsplitHead(fname, ".")

\* mutant of Prefixed: the platform is used for the config name
PrefixedByPlatform(name, errs) ==
    [i \in 1..Len(errs) |-> [config |-> platform, error |-> errs[i]]]

\* [f"{cbc_name}: {e}" for e in _errors] (line 180)
Prefixed(name, errs) ==
    [i \in 1..Len(errs) |-> [config |-> name, error |-> errs[i]]]

\* mutant of ExtendErrors: the new errors are put in front
ExtendErrorsInFront(errs, new) == new \o errs

\* errors.extend(...) (line 180)
ExtendErrors(errs, new) == errs \o new

\* mutants of StopEarly: fail_fast is not looked at, the loop never stops
StopEarlyAlways(acc, ff) == ~acc

StopEarlyNever(acc, ff) == FALSE

\* if not solvable and fail_fast: break (lines 183-184)
StopEarly(acc, ff) == ~acc /\ ff

\* lines 447-454 and 178-184: the configuration's result is folded into the
\* result of the call, the locals of the returned function are dropped
PlatReturn ==
    /\ pc = "plat_return"
    /\ solvable' = AndSolvable(solvable, p_solvable)
    /\ errors' = ExtendErrors(errors, Prefixed(CbcName(cbcs[idx]), p_errors))
    /\ solvable_by_cbc' = DictPut(solvable_by_cbc, CbcName(cbcs[idx]), p_solvable)
    /\ IF StopEarly(solvable', fail_fast) \/ idx = Len(cbcs)
       THEN pc' = "return" /\ idx' = idx
       ELSE pc' = "for_cbc" /\ idx' = idx + 1
    /\ channel_sources' = <<>>
    /\ att' = 0 /\ cbc' = NoneVal
    /\ metas' = <<>> /\ mi' = 0
    /\ p_solvable' = TRUE /\ p_errors' = <<>>
    /\ outnames' = {}
    /\ build_req' = {} /\ host_req' = {} /\ run_req' = {}
    /\ run_constrained' = {}
    /\ lastSolve' = NoSolve
    /\ UNCHANGED <<args, callerVars, staleFile, callerChannels, now, deadline,
                   additional_channels, cbcs, platform, arch, res, exc>>

\* line 186 and line 100
Return ==
    /\ pc = "return"
    /\ res' = <<solvable, errors, solvable_by_cbc>>
    /\ pc' = "done"
    /\ UNCHANGED <<args, callerVars,
                   staleFile, callerChannels, now, aggVars, platVars,
                   exc>>

Next ==
    \/ Enter
    \/ CatchTimeout
    \/ Discover
    \/ LoopHead
    \/ PlatChannels
    \/ Merge
    \/ Render
    \/ GetSolver
    \/ MetaHead
    \/ BuildPhase
    \/ HostPhase
    \/ RunPhase
    \/ TestPhase
    \/ PlatReturn
    \/ Return

Spec == Init /\ [][Next]_vars

(***************************************************************************)
(* Properties                                                              *)
(***************************************************************************)
\* the *.yaml files of .ci_support
YamlFiles == {f \in ciFiles : Len(f) >= 2 /\ SubSeq(f, Len(f) - 1, Len(f)) = <<".", "yaml">>}

\* a config file name without ".yaml"
BaseName(f) == SubSeq(f, 1, Len(f) - 2)

\* the call returned without the timeout signal having been raised
ReturnedInTime == pc = "done" /\ exc # TimeoutTimerException

\* the call returned from the loop over the config files
ReturnedFromLoop == ReturnedInTime /\ YamlFiles # {} /\ hasMeta

\* the positions inside _is_recipe_solvable_on_platform
PlatformPositions ==
    {"channels", "merge", "render", "solver", "for_meta", "build", "host",
     "run", "test", "plat_return"}

\* C1: whenever the deadline check raises the timeout signal, at whatever
\* point of the call, the signal is caught and the call returns exactly
\* (True, [], {}), whatever failures were recorded before; the signal never
\* escapes and never shows in the errors list.
C1_TimeoutFailsOpen ==
    exc = TimeoutTimerException =>
        /\ pc \in {"except", "done"}
        /\ pc = "done" =>
              /\ res[1] = TRUE
              /\ res[2] = <<>>
              /\ DOMAIN res[3] = {}

\* a timeout after a configuration was already recorded as unsolvable
C1_Witness ==
    /\ pc = "done"
    /\ exc = TimeoutTimerException
    /\ errors # <<>>
    /\ \E k \in DOMAIN solvable_by_cbc : ~solvable_by_cbc[k]
    /\ res[1] = TRUE

\* C2 as stated: every call on a feedstock without .ci_support/*.yaml files,
\* or without recipe/meta.yaml, returns (False, non-empty errors, {}).
C2_StructuralAlwaysReported ==
    (pc \in {"done", "raised"} /\ (YamlFiles = {} \/ ~hasMeta)) =>
        /\ pc = "done"
        /\ res[1] = FALSE
        /\ res[2] # <<>>
        /\ DOMAIN res[3] = {}

\* C2 amended: a call on a feedstock without .ci_support/*.yaml files, or
\* without recipe/meta.yaml, raises nothing, and returns (False, non-empty
\* errors, {}) unless the deadline has passed at the first deadline check
\* (line 120), in which case it returns (True, [], {}).
C2_StructuralReportedInTime ==
    (pc \in {"done", "raised"} /\ (YamlFiles = {} \/ ~hasMeta)) =>
        /\ pc = "done"
        /\ IF exc = TimeoutTimerException
           THEN res[1] = TRUE /\ res[2] = <<>> /\ DOMAIN res[3] = {}
           ELSE res[1] = FALSE /\ Len(res[2]) = 1 /\ DOMAIN res[3] = {}

\* a directory with files but no *.yaml file is reported as not solvable
C2_Witness ==
    /\ pc = "done"
    /\ ciFiles # {}
    /\ YamlFiles = {}
    /\ exc = None
    /\ res[1] = FALSE
    /\ res[2] # <<>>

\* C3: when the call returns after checking at least one configuration, the
\* flag is the conjunction of the values of solvable_by_config.
C3_FlagIsConjunction ==
    (ReturnedInTime /\ DOMAIN res[3] # {}) =>
        (res[1] <=> \A k \in DOMAIN res[3] : res[3][k])

\* a solvable configuration checked after an unsolvable one
C3_Witness ==
    /\ pc = "done"
    /\ Len(cbcs) = 2
    /\ DOMAIN res[3] = {BaseName(cbcs[1]), BaseName(cbcs[2])}
    /\ ~res[3][BaseName(cbcs[1])]
    /\ res[3][BaseName(cbcs[2])]
    /\ res[1] = FALSE

\* C4: without fail_fast and without timeout, the call that has entered the
\* loop over the config files ends with exactly one entry per *.yaml file,
\* keyed by the name of the file without its extension.
C4_EveryConfigChecked ==
    (ReturnedFromLoop /\ ~fail_fast) =>
        /\ DOMAIN res[3] = {BaseName(f) : f \in YamlFiles}
        /\ Cardinality(DOMAIN res[3]) = Cardinality(YamlFiles)

\* the first of two configurations is unsolvable and the second is checked
C4_Witness ==
    /\ pc = "done"
    /\ ~fail_fast
    /\ Len(cbcs) = 2
    /\ Cardinality(DOMAIN res[3]) = 2
    /\ ~res[3][BaseName(cbcs[1])]

\* C5: with fail_fast, once a configuration is recorded as unsolvable no
\* other configuration is entered; the returned map has entries for the
\* configurations, in sorted order, up to and including the first
\* unsolvable one, so fewer entries than config files when the first of at
\* least two is unsolvable.
C5_FailFastStops ==
    fail_fast =>
        /\ (\E k \in DOMAIN solvable_by_cbc : ~solvable_by_cbc[k]) =>
               pc \in {"return", "done"}
        /\ ReturnedFromLoop =>
               LET n == Cardinality(DOMAIN res[3])
               IN  /\ n >= 1
                   /\ \A i, j \in 1..Len(cbcs) : i < j => StrLess(cbcs[i], cbcs[j])
                   /\ DOMAIN res[3] = {BaseName(cbcs[i]) : i \in 1..n}
                   /\ \A i \in 1..(n - 1) : res[3][BaseName(cbcs[i])]
                   /\ n < Len(cbcs) => ~res[3][BaseName(cbcs[n])]
                   /\ (Len(cbcs) >= 2 /\ ~res[3][BaseName(cbcs[1])]) =>
                          n < Cardinality(YamlFiles)

\* two config files, the first one unsolvable, one entry
C5_Witness ==
    /\ pc = "done"
    /\ fail_fast
    /\ Len(cbcs) = 2
    /\ DOMAIN res[3] = {BaseName(cbcs[1])}
    /\ ~res[3][BaseName(cbcs[1])]

\* C6: whenever the returned flag is True the returned errors list is empty.
C6_SolvableMeansNoErrors ==
    (pc = "done" /\ res[1] = TRUE) => res[2] = <<>>

\* every configuration of a recipe with outputs was solved, none failed
C6_Witness ==
    /\ pc = "done"
    /\ exc = None
    /\ recipe # <<>>
    /\ Cardinality(DOMAIN res[3]) = 2
    /\ res[1] = TRUE
    /\ res[2] = <<>>

\* C7: every configuration recorded as False has at least one entry of the
\* returned errors list prefixed with its base name.
C7_UnsolvableConfigHasError ==
    pc = "done" =>
        \A k \in DOMAIN res[3] :
            ~res[3][k] => \E i \in 1..Len(res[2]) : res[2][i].config = k

\* two unsolvable configurations, each with its own errors
C7_Witness ==
    /\ pc = "done"
    /\ Len(cbcs) = 2
    /\ Cardinality(DOMAIN res[3]) = 2
    /\ \A k \in DOMAIN res[3] : ~res[3][k]
    /\ \A k \in DOMAIN res[3] : \E i \in 1..Len(res[2]) : res[2][i].config = k

PhaseRank(p) ==
    CASE p = "build" -> 1
      [] p = "host"  -> 2
      [] p = "run"   -> 3
      [] p = "test"  -> 4

\* the position in cbcs of the config file with this base name
ConfigRank(name) == CHOOSE i \in 1..Len(cbcs) : BaseName(cbcs[i]) = name

\* error a was recorded before error b: for an earlier configuration, or
\* for the same one and an earlier output, or for the same output and an
\* earlier phase
ErrBefore(a, b) ==
    LET ca == ConfigRank(a.config)
        cb == ConfigRank(b.config)
        ta == a.error.unsat
        tb == b.error.unsat
    IN  \/ ca < cb
        \/ ca = cb /\ ta.output < tb.output
        \/ ca = cb /\ ta.output = tb.output
                   /\ PhaseRank(ta.phase) < PhaseRank(tb.phase)

C8_Result ==
    ReturnedFromLoop =>
        /\ {cbcs[i] : i \in 1..Len(cbcs)} = YamlFiles
        /\ \A i, j \in 1..Len(cbcs) : i < j => StrLess(cbcs[i], cbcs[j])
        /\ \A i \in 1..Len(res[2]) : res[2][i].config \in DOMAIN res[3]
        /\ \A i, j \in 1..Len(res[2]) : i < j => ErrBefore(res[2][i], res[2][j])

C8_Step ==
    \* a configuration is entered when exactly the smaller ones are done
    /\ (pc = "for_cbc" /\ pc' = "channels") =>
           DOMAIN solvable_by_cbc =
               {BaseName(f) : f \in {g \in YamlFiles : StrLess(g, cbcs[idx])}}
    \* a phase only appends to the errors of the configuration
    /\ (pc \in PlatformPositions /\ pc' \in PlatformPositions) =>
           /\ Len(p_errors') >= Len(p_errors)
           /\ SubSeq(p_errors', 1, Len(p_errors)) = p_errors
    \* the errors of the configuration are appended, prefixed, in their order
    /\ pc = "plat_return" =>
           errors' = errors \o
               [i \in 1..Len(p_errors) |->
                   [config |-> BaseName(cbcs[idx]), error |-> p_errors[i]]]
    \* and returned as they are
    /\ pc = "return" => res'[2] = errors

\* C8: the configurations are checked in sorted file name order; every
\* error recorded while a configuration is checked is in the returned list,
\* prefixed with the base name of the configuration, in the order of the
\* configurations and, within one, in the order the failing phases ran.
C8_ErrorsInOrder == []C8_Result /\ [][C8_Step]_vars

\* errors of two configurations, two of them of the same configuration
C8_Witness ==
    /\ pc = "done"
    /\ Len(res[2]) >= 3
    /\ res[2][1].config # res[2][Len(res[2])].config
    /\ res[2][1].config = res[2][2].config

\* C9 as stated: with an unknown solver name no configuration is merged,
\* rendered or solved and the call never returns a result.
C9_UnknownBackendRaisedAtOnce ==
    solver \notin {"mamba", "rattler"} =>
        pc \notin {"merge", "render", "for_meta", "build", "host", "run",
                   "test", "done"}

\* C9 amended: with a solver name other than mamba or rattler no
\* requirement list is ever solved and no configuration gets a result; the
\* unknown-backend error is raised while the first configuration is
\* checked, after its two merge attempts and its render, and it escapes the
\* call; the call returns a result only when it ends before that point, on
\* a structural failure or on a timeout.
C9_UnknownBackendRaisedBeforeSolving ==
    /\ exc.type = "ValueError" => solver \notin {"mamba", "rattler"}
    /\ solver \notin {"mamba", "rattler"} =>
        /\ pc \notin {"for_meta", "build", "host", "run", "test",
                      "plat_return", "return"}
        /\ DOMAIN solvable_by_cbc = {}
        /\ exc.type = "ValueError" =>
               /\ pc = "raised"
               /\ exc.backend = solver
               /\ idx = 1 /\ att = 2 /\ metas = recipe
        /\ pc = "done" =>
               \/ exc = TimeoutTimerException
               \/ YamlFiles = {}
               \/ ~hasMeta

\* the error escapes after the first configuration was rendered
C9_Witness ==
    /\ pc = "raised"
    /\ exc = ValueError("conda")
    /\ solver = "conda"
    /\ att = 2
    /\ metas = recipe /\ recipe # <<>>

\* C10: no exception escapes the call except a template render failure.
C10_OnlyRenderFailureEscapes ==
    pc = "raised" => exc = RenderError

(***************************************************************************)
(* Run-export propagation (lines 338-389): a feedstock with one config     *)
(* file and one output, drawn from every regime (is_cross, noarch,         *)
(* build_is_host); every bucket of the run-exports holds its own package.  *)
(***************************************************************************)
\* the output requires itself, as a sub-package pinned to its parent does
Self == <<"lib", "">>

BuildRx == [strong |-> {<<"libgcc", "">>, Self},
            weak |-> {<<"libstdcxx", "">>},
            noarch |-> {<<"python_abi", "">>},
            strong_constrains |-> {<<"sysroot", "">>},
            weak_constrains |-> {<<"openmp", "">>}]

HostRx == [strong |-> {<<"libzlib", "">>},
           weak |-> {<<"libffi", "">>, Self},
           noarch |-> {<<"pypy", "">>},
           strong_constrains |-> {<<"openssl", "">>},
           weak_constrains |-> {<<"icu", "">>}]

\* a recipe without a host section has build_is_host set
RegimeMeta(cross, na, bih) ==
    Meta("lib", cross, na, bih, {Gcc, Self},
         IF bih THEN {} ELSE {Python, Self}, {Python, Self}, {},
         {Pytest, Self})

RegimeMetas == {RegimeMeta(c, n, b) : c \in BOOLEAN, n \in BOOLEAN, b \in BOOLEAN}

InitRegimes ==
    InitOver({{Linux64}}, {TRUE}, {<<m>> : m \in RegimeMetas},
             {[build |-> BuildRx, host |-> HostRx]}, {AnyAnswer},
             {"rattler"}, TimeoutValues, ChannelValues)

SpecRegimes == InitRegimes /\ [][Next]_vars

\* the step of a build solve that succeeded (lines 317-356)
BuildSolved == pc = "build" /\ build_req # {} /\ pc' = "host"

\* the step of a host solve that succeeded (lines 358-389)
HostSolved == pc = "host" /\ host_req # {} /\ pc' = "run"

\* the rows of the decision table of the build's run-exports, in order
TableRows == 1..4

RowApplies(k, m) ==
    IF k = 1 THEN m.is_cross
    ELSE IF k = 2 THEN ~m.is_cross /\ m.noarch /\ m.build_is_host
    ELSE IF k = 3 THEN ~m.is_cross /\ ~m.noarch /\ m.build_is_host
    ELSE ~m.is_cross /\ ~m.noarch /\ ~m.build_is_host

RowsFor(m) == {k \in TableRows : RowApplies(k, m)}

\* what host_req, run_req and run_constrained gain by row k of the table
RowHostGain(k, rx) == IF k \in {1, 4} THEN rx.strong ELSE {}

RowRunGain(k, m, rx) ==
    IF k = 1 THEN (IF m.noarch THEN {} ELSE rx.strong)
    ELSE IF k = 2 THEN rx.noarch
    ELSE IF k = 3 THEN rx.strong \cup rx.weak
    ELSE {}

RowRcGain(k, rx) ==
    rx.strong_constrains \cup (IF k = 3 THEN rx.weak_constrains ELSE {})

\* the same, with the last row as the code has it: strong goes to run_req too
CodeRunGain(k, m, rx) == IF k = 4 THEN rx.strong ELSE RowRunGain(k, m, rx)

\* C12 as stated: for any (is_cross, noarch, build_is_host) exactly one row
\* of the decision table applies, and a successful build solve adds to
\* host_req, run_req and run_constrained what that row says.
C12_ExactlyOneRowDescribes ==
    [][BuildSolved =>
          LET m == metas[mi]
              rx == channelRx.build
          IN  /\ Cardinality(RowsFor(m)) = 1
              /\ \A k \in RowsFor(m) :
                    /\ host_req' = host_req \cup RowHostGain(k, rx)
                    /\ run_req' = run_req \cup RowRunGain(k, m, rx)
                    /\ run_constrained' = run_constrained \cup RowRcGain(k, rx)]_vars

\* C12, amended: at most one row of the decision table applies to a triple;
\* none applies to a native noarch Metadata without build_is_host, for
\* which a successful build solve adds nothing to host_req and run_req and
\* strong_constrains to run_constrained; in every other regime exactly one
\* row applies, and the build solve adds what the row says, except that the
\* last row (native, not noarch, not build_is_host) adds strong to run_req
\* as well as to host_req.
C12_AtMostOneRowDescribes ==
    [][BuildSolved =>
          LET m == metas[mi]
              rx == channelRx.build
          IN  /\ Cardinality(RowsFor(m)) <= 1
              /\ RowsFor(m) = {} <=>
                     (~m.is_cross /\ m.noarch /\ ~m.build_is_host)
              /\ RowsFor(m) = {} =>
                    /\ host_req' = host_req
                    /\ run_req' = run_req
                    /\ run_constrained' =
                           run_constrained \cup rx.strong_constrains
              /\ \A k \in RowsFor(m) :
                    /\ host_req' = host_req \cup RowHostGain(k, rx)
                    /\ run_req' = run_req \cup CodeRunGain(k, m, rx)
                    /\ run_constrained' = run_constrained \cup RowRcGain(k, rx)]_vars

\* the build solve of a native noarch output with a host section succeeded
\* and left the run requirements as the recipe has them
C12_Witness ==
    /\ pc = "host"
    /\ ~metas[mi].is_cross /\ metas[mi].noarch /\ ~metas[mi].build_is_host
    /\ build_req = Resolved({Gcc})
    /\ host_req = metas[mi].host
    /\ run_req = metas[mi].run
    /\ run_constrained = BuildRx.strong_constrains

\* C13 as stated: after a successful build solve host_req and run_req gain
\* exactly the buckets of the decision table row of the Metadata's regime;
\* for a native Metadata that is not noarch and has a host section, host_req
\* gains strong and run_req gains nothing.
C13_GainsAreTheTableRow ==
    [][BuildSolved =>
          \A k \in RowsFor(metas[mi]) :
              /\ host_req' = host_req \cup RowHostGain(k, channelRx.build)
              /\ run_req' =
                     run_req \cup RowRunGain(k, metas[mi], channelRx.build)]_vars

\* C13, amended: after a successful build solve, cross gives host strong
\* and run strong unless noarch; native noarch with build_is_host gives run
\* noarch only; native non-noarch with build_is_host gives run strong and
\* weak and nothing to host; native non-noarch without build_is_host gives
\* host strong and run strong.
C13_GainsAreTheCodeRow ==
    [][BuildSolved =>
          LET m == metas[mi]
              strong == channelRx.build.strong
              weak == channelRx.build.weak
              noarch == channelRx.build.noarch
          IN  /\ m.is_cross =>
                    /\ host_req' = host_req \cup strong
                    /\ run_req' = IF m.noarch THEN run_req
                                  ELSE run_req \cup strong
              /\ ~m.is_cross /\ m.noarch /\ m.build_is_host =>
                    /\ host_req' = host_req
                    /\ run_req' = run_req \cup noarch
              /\ ~m.is_cross /\ ~m.noarch /\ m.build_is_host =>
                    /\ host_req' = host_req
                    /\ run_req' = run_req \cup strong \cup weak
              /\ ~m.is_cross /\ ~m.noarch /\ ~m.build_is_host =>
                    /\ host_req' = host_req \cup strong
                    /\ run_req' = run_req \cup strong]_vars

\* the build solve of a native output that is not noarch and has a host
\* section succeeded: the strong run-exports are in host_req and in run_req
C13_Witness ==
    /\ pc = "host"
    /\ ~metas[mi].is_cross /\ ~metas[mi].noarch /\ ~metas[mi].build_is_host
    /\ build_req = Resolved({Gcc})
    /\ host_req = metas[mi].host \cup BuildRx.strong
    /\ run_req = metas[mi].run \cup BuildRx.strong
    /\ BuildRx.strong \ metas[mi].run # {}

\* C14: the run-exports of the host solve reach run_req and run_constrained
\* only when cross-compiling: after a successful host solve with is_cross,
\* run_req gains the noarch bucket if the Metadata is noarch and weak and
\* strong otherwise, and run_constrained gains weak_constrains and
\* strong_constrains; without is_cross the host solve adds nothing to them.
C14_HostExportsOnlyWhenCross ==
    [][HostSolved =>
          LET m == metas[mi]
              rx == channelRx.host
          IN  IF m.is_cross
              THEN /\ run_req' =
                          run_req \cup (IF m.noarch THEN rx.noarch
                                        ELSE rx.weak \cup rx.strong)
                   /\ run_constrained' =
                          run_constrained \cup rx.weak_constrains
                                          \cup rx.strong_constrains
              ELSE /\ run_req' = run_req
                   /\ run_constrained' = run_constrained]_vars

\* the host solve of a cross-compiled output that is not noarch succeeded
C14_Witness ==
    /\ pc = "run"
    /\ metas[mi].is_cross /\ ~metas[mi].noarch
    /\ host_req = Resolved({Python, <<"libgcc", "">>})
    /\ HostRx.weak \cup HostRx.strong \subseteq run_req
    /\ HostRx.weak_constrains \cup HostRx.strong_constrains
           \subseteq run_constrained

(***************************************************************************)
(* The order of the solver calls of one configuration (lines 301-445)      *)
(***************************************************************************)
\* the step calls the solver
SolverCalled == lastSolve' # lastSolve /\ lastSolve'.made

\* the step calls the solver, the solver fails, the deadline has not passed
PhaseFailed == SolverCalled /\ ~lastSolve'.ok /\ pc' # "except"

\* C15: without fail_fast, within one Metadata the solver is called in the
\* order build, host, run, test; after a phase failed no later phase of the
\* same Metadata is solved; the following Metadata of the configuration is
\* checked next, and the result of the configuration stays False whatever
\* the later phases answer.
C15_FailedPhaseSkipsTheRestOfItsOutput ==
    [][~fail_fast =>
          /\ (SolverCalled /\ lastSolve.made) =>
                /\ lastSolve'.output >= lastSolve.output
                /\ lastSolve'.output = lastSolve.output =>
                      /\ PhaseRank(lastSolve.phase) < PhaseRank(lastSolve'.phase)
                      /\ lastSolve.ok
          /\ PhaseFailed =>
                /\ ~p_solvable'
                /\ IF mi < Len(metas)
                   THEN pc' = "for_meta" /\ mi' = mi + 1
                   ELSE pc' = "plat_return"
          /\ (~p_solvable /\ pc # "plat_return") => ~p_solvable'
          /\ (~p_solvable /\ pc = "plat_return") =>
                /\ ~solvable_by_cbc'[BaseName(cbcs[idx])]
                /\ ~solvable']_vars

\* without fail_fast the first output failed and the solver has answered
\* for the second one that its requirements can be solved
C15_Witness ==
    /\ ~fail_fast
    /\ Len(metas) = 2
    /\ lastSolve.made /\ lastSolve.output = 2 /\ lastSolve.ok
    /\ ~p_solvable
    /\ Len(p_errors) = 1 /\ p_errors[1].unsat.output = 1

\* C16: with fail_fast the first failed phase aborts the whole
\* configuration at once: the solver is called neither for the remaining
\* phases of the Metadata nor for a later Metadata of the configuration.
C16_FailFastAbortsConfiguration ==
    [][fail_fast =>
          /\ PhaseFailed => pc' = "plat_return" /\ ~p_solvable'
          /\ (lastSolve.made /\ ~lastSolve.ok) => ~SolverCalled
          /\ (lastSolve.made /\ ~lastSolve.ok /\ pc = "plat_return") =>
                ~solvable_by_cbc'[BaseName(cbcs[idx])]]_vars

\* with fail_fast the first phase of the first of two outputs failed and the
\* configuration is left
C16_Witness ==
    /\ fail_fast
    /\ Len(metas) = 2
    /\ pc = "plat_return"
    /\ lastSolve.made /\ ~lastSolve.ok
    /\ lastSolve.output = 1 /\ mi = 1
    /\ Len(p_errors) = 1

\* C18: no requirement list handed to the solver, in the build, host, run
\* or test phase, names an output of the configuration, whether the name
\* came from the recipe, from a run-export, from the pins or from run_req
\* added to the test requirements.
C18_NoOutputIsSolvedFor ==
    lastSolve.made => Names(lastSolve.reqs) \cap outnames = {}

\* the test requirements of an output that requires itself were solved,
\* after a run-export of the build solve had put the output's name into
\* run_req
C18_Witness ==
    /\ lastSolve.made /\ lastSolve.phase = "test"
    /\ "lib" \in outnames
    /\ Self \in recipe[lastSolve.output].test
    /\ Self \in recipe[lastSolve.output].run
    /\ ~recipe[lastSolve.output].is_cross /\ ~recipe[lastSolve.output].noarch
    /\ Self \in channelRx.build.strong
    /\ <<"libgcc", "">> \in lastSolve.reqs

\* C17: the variant merge is retried on failure only: the second attempt is
\* made, and recipe/conda_build_config.yaml removed, only after the first
\* attempt failed; when both attempts fail it is the exception of the first
\* attempt that propagates.
C17_MergeRetriedOnFailureOnly ==
    [][(pc = "merge" /\ pc' # "except") =>
          /\ (att = 1 /\ att' = 2) => cbc = NoneVal
          /\ staleFile' # staleFile => (att = 1 /\ cbc = NoneVal)
          /\ pc' = "raised" =>
                (att = 1 /\ cbc = NoneVal /\ exc' = MergeError(0))]_vars

\* C19: the first token of a config file name is the platform; the second
\* token is the architecture if it is a recognized one, otherwise the
\* architecture is "64" and the remainder of the name is folded back into
\* the platform token; a name without a second token gives the
\* architecture "64", so that the decomposition never fails.
C19_DecomposedByConvention ==
    /\ exc # IndexError
    /\ pc = "channels" =>
          LET tokens == Parts(cbcs[idx])
              second == tokens[2]
          IN  IF Len(second) = 1 /\ second[1] \in RecognizedArchs
              THEN platform = tokens[1] /\ arch = second
              ELSE arch = <<"64">> /\ platform = cbcs[idx]

(***************************************************************************)
(* Two calls in succession: result = is_recipe_solvable(dir, channels);    *)
(* again = is_recipe_solvable(dir, channels), with the same list object,   *)
(* on the feedstock as the first call has left it, with deterministic      *)
(* collaborators.                                                          *)
(***************************************************************************)
\* how a call ended: returned or raised, the tuple, the exception
Outcome == [pc |-> pc, res |-> res, exc |-> exc]

\* the first call has ended, the second call is made with the same arguments
CallAgain ==
    /\ ncall = 1
    /\ pc \in {"done", "raised"}
    /\ first' = Outcome
    /\ ncall' = 2
    /\ pc' = "call"
    /\ deadline' = 0
    /\ additional_channels' = <<>>
    /\ cbcs' = <<>> /\ idx' = 0
    /\ solvable' = TRUE /\ errors' = <<>> /\ solvable_by_cbc' = EmptyDict
    /\ platform' = <<>> /\ arch' = <<>>
    /\ channel_sources' = <<>>
    /\ att' = 0 /\ cbc' = NoneVal
    /\ metas' = <<>> /\ mi' = 0
    /\ p_solvable' = TRUE /\ p_errors' = <<>>
    /\ outnames' = {}
    /\ build_req' = {} /\ host_req' = {} /\ run_req' = {}
    /\ run_constrained' = {}
    /\ lastSolve' = NoSolve
    /\ res' = NoResult
    /\ exc' = None
    /\ UNCHANGED <<args, staleFile, callerChannels, now>>

NextTwice == Next \/ CallAgain

PackageNames == {"python", "gcc"}

Oracles ==
    {Deterministic(missing, extra, mf, sb, rf) :
        missing \in SUBSET PackageNames, extra \in {{}, {"gcc"}},
        mf \in BOOLEAN, sb \in BOOLEAN, rf \in BOOLEAN}

InitTwice ==
    InitOver({{}, {Linux64}, {LinuxBare}, {Linux64, LinuxArm}}, BOOLEAN,
             {<<ToolMeta>>, <<LibMeta, ToolMeta>>}, RxCatalogue, Oracles,
             {"rattler", "conda"}, TimeoutValues,
             {NoChannels, ChannelList(<<ExtraChannel>>)})

SpecTwice == InitTwice /\ [][NextTwice]_vars

\* C11: with an unlimited timeout and deterministic collaborators the
\* second of two calls in succession, made with the same arguments, ends as
\* the first one did: the same solvable, the same errors in the same order,
\* the same solvable_by_config.
C11_SecondCallEndsAsTheFirst ==
    (ncall = 2 /\ pc \in {"done", "raised"} /\ timeout = NoTimeout) =>
        Outcome = first

\* the first call removed recipe/conda_build_config.yaml and appended to the
\* caller's channel list; both calls found the same two errors
C11_Witness ==
    /\ ncall = 2 /\ pc = "done" /\ timeout = NoTimeout
    /\ oracle.staleBreaksMerge /\ ~staleFile
    /\ Len(callerChannels.items) = 3
    /\ Len(res[2]) = 2
    /\ first.res = res

\* C20: a call leaves the list that the caller passed as additional_channels
\* as it was, however the call ends.
C20_CallerListUnchanged == [][callerChannels' = callerChannels]_vars

====
